---------------------------- MODULE Spec2Model ----------------------------
(***************************************************************************)
(* A model of src/nix.rs (lorri): the CallOpts builder, the rendering of   *)
(* the Nix command line, and the execution of a Nix command with its two   *)
(* drain threads, the child process and the temporary GC-root directory.   *)
(***************************************************************************)
EXTENDS Naturals, Sequences, FiniteSets, TLC

(***************************************************************************)
(* Bounds of the model.                                                    *)
(***************************************************************************)
\* Builder calls made on one configuration.
MaxBuilderCalls == 4
\* Lines a pipe holds before a write to it blocks.
PipeCap == 1
\* Chunks the child writes to standard output, lines to standard error.
MaxOut == 2
MaxErr == 2

(***************************************************************************)
(* The values the inputs are drawn from.                                   *)
(***************************************************************************)
Exprs == {"my-cool-expression"}
Files == {"/my-cool-file.nix"}
Attrs == {"hello", "world"}
Names == {"foo", "baz"}
Values == {"bar", "qux"}

\* Option<T>: None, or Some(x).
None == <<>>
Some(x) == <<x>>

\* enum Input
Expression(e) == [tag |-> "Expression", val |-> e]
File(p) == [tag |-> "File", val |-> p]
Inputs == {Expression(e) : e \in Exprs} \cup {File(p) : p \in Files}

VARIABLES
    \* CallOpts
    input, attribute, argstrs,
    \* the iteration order of the HashMap argstrs (a permutation of its keys)
    argOrder,
    \* the Vec last returned by command_arguments (empty: none is borrowed)
    ret,
    \* history: the constructor call and the builder calls made since
    ctor, log,
    \* the calling thread: its position, the terminal operation it runs,
    \* the Command, the local gc_root_dir and the results
    pc, op, cmd, gc_root_dir, nix_proc_result, data_result,
    execRes, pathsRes, result,
    \* history: the calls of cmd.spawn(), of TempDir::new() and of paths()
    \* made by the terminal operation in progress
    spawn_calls, tempdir_calls, paths_calls,
    \* the file system's temporary directories and the guards the caller holds
    dirs, guards,
    \* the child process: its state, the operation it is about to do, its
    \* exit status and what it has written so far
    child, childNext, exitStatus, outWritten, errWritten,
    \* the two pipes and whether their read ends are open
    outPipe, errPipe, outOpen, errOpen,
    \* the stderr thread, the channel and its two ends
    stderr_thread, chan, txAlive, rxAlive,
    \* the stdout thread, what stdout_fn has consumed and what it returned
    stdout_thread, outAcc, stdout_ret

cfgVars == <<input, attribute, argstrs, argOrder, ret, ctor, log>>
countVars == <<spawn_calls, tempdir_calls, paths_calls>>
callVars == <<pc, op, cmd, gc_root_dir, nix_proc_result, data_result,
              execRes, pathsRes, result, dirs, guards, countVars>>
childVars == <<child, childNext, exitStatus, outWritten, errWritten>>
pipeVars == <<outPipe, errPipe, outOpen, errOpen>>
errThreadVars == <<stderr_thread, chan, txAlive, rxAlive>>
outThreadVars == <<stdout_thread, outAcc, stdout_ret>>
procVars == <<callVars, childVars, pipeVars, errThreadVars, outThreadVars>>
vars == <<cfgVars, procVars>>

(***************************************************************************)
(* command_arguments: -A and the attribute if one is set, a triple per     *)
(* entry of argstrs in the map's iteration order, then the input clause.   *)
(***************************************************************************)
RECURSIVE argstr_loop(_, _, _)
argstr_loop(r, args, order) ==
    IF order = <<>> THEN r
    ELSE argstr_loop(r \o <<"--argstr", Head(order), args[Head(order)]>>,
                     args, Tail(order))

attribute_clause(attr) ==
    IF attr # None THEN <<"-A", attr[1]>> ELSE <<>>

input_clause(inp) ==
    IF inp.tag = "Expression" THEN <<"--expr", inp.val>> ELSE <<"--", inp.val>>

\* A rendering that puts the input clause before the --argstr triples.
command_arguments_inputEarly(inp, attr, args, order) ==
    argstr_loop(attribute_clause(attr) \o input_clause(inp), args, order)

command_arguments(inp, attr, args, order) ==
    argstr_loop(attribute_clause(attr), args, order) \o input_clause(inp)

(***************************************************************************)
(* The builder.                                                            *)
(***************************************************************************)
EmptyMap == [n \in {} |-> "bar"]

\* The orders a HashMap may iterate in once key n is inserted: the keys
\* already there keep their relative order (no rehash at these sizes) and
\* the new key lands in the slot its hash, under the map's random seed,
\* gives it.
InsertOrders(order, n) ==
    {SubSeq(order, 1, i) \o <<n>> \o SubSeq(order, i + 1, Len(order)) :
        i \in 0..Len(order)}

\* CallOpts::expression, CallOpts::file
CallOpts_new(inp) ==
    /\ input = inp
    /\ attribute = None
    /\ argstrs = EmptyMap
    /\ argOrder = <<>>
    /\ ret = <<>>
    /\ ctor = inp
    /\ log = <<>>

\* An attribute call that keeps an attribute already set.
CallOpts_attribute_keepFirst(attr) ==
    /\ Len(log) < MaxBuilderCalls
    /\ attribute' = IF attribute = None THEN Some(attr) ELSE attribute
    /\ ret' = <<>>
    /\ log' = Append(log, [call |-> "attribute", name |-> "", val |-> attr])
    /\ UNCHANGED <<input, argstrs, argOrder, ctor, procVars>>

CallOpts_attribute(attr) ==
    /\ Len(log) < MaxBuilderCalls
    /\ attribute' = Some(attr)
    /\ ret' = <<>>
    /\ log' = Append(log, [call |-> "attribute", name |-> "", val |-> attr])
    /\ UNCHANGED <<input, argstrs, argOrder, ctor, procVars>>

\* HashMap::insert
HashMap_insert(name, value) ==
    IF name \in DOMAIN argstrs
    THEN /\ argstrs' = [argstrs EXCEPT ![name] = value]
         /\ argOrder' = argOrder
    ELSE /\ argstrs' = [n \in DOMAIN argstrs \cup {name} |->
                           IF n = name THEN value ELSE argstrs[n]]
         /\ argOrder' \in InsertOrders(argOrder, name)

CallOpts_argstr(name, value) ==
    /\ Len(log) < MaxBuilderCalls
    /\ HashMap_insert(name, value)
    /\ ret' = <<>>
    /\ log' = Append(log, [call |-> "argstr", name |-> name, val |-> value])
    /\ UNCHANGED <<input, attribute, ctor, procVars>>

\* A call of command_arguments on the configuration as it stands.
Render ==
    /\ ret' = command_arguments(input, attribute, argstrs, argOrder)
    /\ UNCHANGED <<input, attribute, argstrs, argOrder, ctor, log, procVars>>

(***************************************************************************)
(* Results and failures.                                                   *)
(***************************************************************************)
Ok(v) == [ok |-> TRUE, val |-> v]
Err(e) == [ok |-> FALSE, err |-> e]

\* The constructors of BuildError called by nix.rs.
BuildError_io(e) == [ctor |-> "io", cause |-> e]
BuildError_spawn(c, e) == [ctor |-> "spawn", cmd |-> c, cause |-> e]
BuildError_exit(c, status, logs) ==
    [ctor |-> "exit", cmd |-> c, status |-> status, logs |-> logs]
BuildError_output(msg) == [ctor |-> "output", msg |-> msg]

\* From<std::io::Error> for BuildError, which the ? operator applies.
FromIoError(e) == BuildError_io(e)

\* ExitStatus::success
success(status) == status = "exit0"

(***************************************************************************)
(* The child's output and the two decode strategies.                       *)
(***************************************************************************)
\* What the child may write to standard output, one line at a time: a line
\* that is a JSON number, and a line that is no JSON.
OutTokens == {"5", "/nix/store/x"}
ErrLines == {"e1", "e2"}
JsonNumbers == {"5"}
ExitCodes == {"exit0", "exit1"}
DirIds == {"tmp1", "tmp2"}

\* The number a JSON number denotes.
json_number(t) == CASE t = "5" -> 5

\* osstrlines::Lines: the next line of a stream and the rest of the stream.
Lines_next(stream) == [line |-> Head(stream), rest |-> Tail(stream)]

\* StorePath::from
StorePath(s) == [StorePath |-> s]

\* serde_json::from_reader: one value, then the end of the stream. It fails
\* as soon as it meets text that is no JSON or text after the value, and at
\* the end of a stream that held no value.
from_reader_fails(acc) ==
    \/ Len(acc) > 1
    \/ \E i \in 1..Len(acc) : acc[i] \notin JsonNumbers

from_reader_eof(acc) ==
    IF Len(acc) = 1 THEN Ok(json_number(acc[1])) ELSE Err("EOF while parsing")

\* The closure of paths(): every line as a StorePath.
lines_collect(acc) == Ok([i \in 1..Len(acc) |-> StorePath(acc[i])])

\* stdout_fn of the terminal operation o: whether it returns before the end
\* of the stream having consumed acc, and what it returns then; what it
\* returns at the end of the stream; what it returns on a read error.
stdout_fn_stops(o, acc) == o = "value" /\ from_reader_fails(acc)
stdout_fn_early(o, acc) == Err("syntax")
stdout_fn_eof(o, acc) ==
    IF o = "value" THEN from_reader_eof(acc) ELSE lines_collect(acc)
stdout_fn_io(o) == Err("read")

(***************************************************************************)
(* What the terminal operations make of the result of execute.             *)
(***************************************************************************)
\* execute, lines 388-396, taking any line on standard error for a failure
\* of the decoding.
execute_ret_stderrCounts(c, status, data, logs) ==
    IF ~success(status)
    THEN Err(BuildError_exit(c, status, logs))
    ELSE Ok(IF logs = <<>> THEN data ELSE Err(logs))

\* execute, lines 388-396, with the exit status taken for success.
execute_ret_ignoreStatus(c, status, data, logs) == Ok(data)

\* execute, lines 388-396.
execute_ret(c, status, data, logs) ==
    IF ~success(status)
    THEN Err(BuildError_exit(c, status, logs))
    ELSE Ok(data)

\* value: a failed deserialization passed on as the exit failure's kin.
value_ret_asOutput(er) ==
    IF ~er.ok THEN er
    ELSE IF ~er.val.ok THEN Err(BuildError_output(er.val.err))
    ELSE Ok(er.val.val)

\* value, lines 207-210: execute(..)?.map_err(BuildError::io)
value_ret(er) ==
    IF ~er.ok THEN er
    ELSE IF ~er.val.ok THEN Err(BuildError_io(er.val.err))
    ELSE Ok(er.val.val)

\* paths without the Vec1 check.
paths_ret_noVec1(er, d) ==
    IF ~er.ok THEN er
    ELSE IF ~er.val.ok THEN Err(FromIoError(er.val.err))
    ELSE Ok([paths |-> er.val.val, gc_root |-> d])

\* paths, lines 323-335: execute(..)??, then Vec1::try_from_vec
paths_ret(er, d) ==
    IF ~er.ok THEN er
    ELSE IF ~er.val.ok THEN Err(FromIoError(er.val.err))
    ELSE IF Len(er.val.val) >= 1
         THEN Ok([paths |-> er.val.val, gc_root |-> d])
         ELSE Err(BuildError_output("expected exactly one Nix output, got zero"))

\* Vec::pop: the last element, if any, and the vector without it.
pop(v) ==
    IF Len(v) = 0 THEN [item |-> None, rest |-> v]
    ELSE [item |-> Some(v[Len(v)]), rest |-> SubSeq(v, 1, Len(v) - 1)]

\* path taking the last of several paths.
path_ret_takeLast(pr) ==
    IF ~pr.ok THEN pr
    ELSE LET p1 == pop(pr.val.paths)
         IN  IF p1.item = None
             THEN Err(BuildError_output("expected exactly one build output, got zero"))
             ELSE Ok([path |-> p1.item[1], gc_root |-> pr.val.gc_root])

\* path, lines 264-280
path_ret(pr) ==
    IF ~pr.ok THEN pr
    ELSE LET p1 == pop(pr.val.paths)
             p2 == pop(p1.rest)
         IN  IF p1.item = None
             THEN Err(BuildError_output("expected exactly one build output, got zero"))
             ELSE IF p2.item = None
             THEN Ok([path |-> p1.item[1], gc_root |-> pr.val.gc_root])
             ELSE Err(BuildError_output("expected exactly one build output, got more"))

\* A gc_root_dir that outlives a failed call.
drop_gc_root_leak(final, ds, gr) == ds

\* The directories left when a terminal operation ends with `final`: the
\* TempDir local is dropped, and its directory removed, unless it was moved
\* into the value returned.
drop_gc_root(final, ds, gr) ==
    IF final.ok THEN ds ELSE ds \ {gr[i] : i \in 1..Len(gr)}

(***************************************************************************)
(* The calling thread.                                                     *)
(***************************************************************************)
NoCmd == [program |-> "", args |-> <<>>]

\* gc_root_dir.path().join("result")
out_link(d) == CASE d = "tmp1" -> "tmp1/result" [] d = "tmp2" -> "tmp2/result"

ProcInit ==
    /\ pc = "idle" /\ op = "none" /\ cmd = NoCmd
    /\ gc_root_dir = None /\ nix_proc_result = None /\ data_result = None
    /\ execRes = None /\ pathsRes = None /\ result = None
    /\ dirs = {} /\ guards = {}
    /\ spawn_calls = 0 /\ tempdir_calls = 0 /\ paths_calls = 0
    /\ child = "none" /\ childNext = [k |-> "none", v |-> ""]
    /\ exitStatus = "none" /\ outWritten = <<>> /\ errWritten = <<>>
    /\ outPipe = <<>> /\ errPipe = <<>> /\ outOpen = FALSE /\ errOpen = FALSE
    /\ stderr_thread = "none" /\ chan = <<>> /\ txAlive = FALSE /\ rxAlive = FALSE
    /\ stdout_thread = "none" /\ outAcc = <<>> /\ stdout_ret = None

\* No process or thread of an earlier call is still running.
Quiescent ==
    /\ child \in {"none", "exited"}
    /\ stderr_thread # "running"
    /\ stdout_thread # "running"

\* The start of a terminal operation that forgets the attribute.
Enter_forgetsAttribute(o) ==
    /\ pc \in {"idle", "returned"}
    /\ Quiescent
    /\ op' = o
    /\ nix_proc_result' = None /\ data_result' = None
    /\ spawn_calls' = 0
    /\ child' = "none" /\ childNext' = [k |-> "none", v |-> ""]
    /\ exitStatus' = "none" /\ outWritten' = <<>> /\ errWritten' = <<>>
    /\ outPipe' = <<>> /\ errPipe' = <<>> /\ outOpen' = FALSE /\ errOpen' = FALSE
    /\ stderr_thread' = "none" /\ chan' = <<>> /\ txAlive' = FALSE /\ rxAlive' = FALSE
    /\ stdout_thread' = "none" /\ outAcc' = <<>> /\ stdout_ret' = None
    /\ attribute' = None
    /\ UNCHANGED <<input, argstrs, argOrder, ret, ctor, log>>

\* The start of a terminal operation: new locals, no process yet.
Enter(o) ==
    /\ pc \in {"idle", "returned"}
    /\ Quiescent
    /\ op' = o
    /\ nix_proc_result' = None /\ data_result' = None
    /\ spawn_calls' = 0
    /\ child' = "none" /\ childNext' = [k |-> "none", v |-> ""]
    /\ exitStatus' = "none" /\ outWritten' = <<>> /\ errWritten' = <<>>
    /\ outPipe' = <<>> /\ errPipe' = <<>> /\ outOpen' = FALSE /\ errOpen' = FALSE
    /\ stderr_thread' = "none" /\ chan' = <<>> /\ txAlive' = FALSE /\ rxAlive' = FALSE
    /\ stdout_thread' = "none" /\ outAcc' = <<>> /\ stdout_ret' = None
    /\ UNCHANGED cfgVars

\* value, lines 204-206: the command, then execute.
CallOpts_value ==
    /\ Enter("value")
    /\ cmd' = [program |-> "nix-instantiate",
               args |-> <<"--eval", "--json", "--strict">>
                        \o command_arguments(input, attribute, argstrs, argOrder)]
    /\ pc' = "spawn"
    /\ execRes' = None /\ pathsRes' = None /\ result' = None
    /\ tempdir_calls' = 0 /\ paths_calls' = 0
    /\ UNCHANGED <<gc_root_dir, dirs, guards>>

\* paths, lines 309-319 (path calls it first): the temporary directory, the
\* command, then execute.
CallOpts_paths(o) ==
    /\ Enter(o)
    /\ \E d \in DirIds \ dirs :
          /\ dirs' = dirs \cup {d}
          /\ gc_root_dir' = Some(d)
          /\ cmd' = [program |-> "nix-build",
                     args |-> <<"--out-link", out_link(d)>>
                              \o command_arguments(input, attribute, argstrs, argOrder)]
    /\ pc' = "spawn"
    /\ execRes' = None /\ pathsRes' = None /\ result' = None
    /\ tempdir_calls' = 1 /\ paths_calls' = 1
    /\ UNCHANGED guards

\* The caller gets `er` from execute (or from the ? before it): the terminal
\* operation finishes and its locals are dropped.
Return(er) ==
    LET pr == paths_ret(er, IF gc_root_dir = None THEN "" ELSE gc_root_dir[1])
        final == CASE op = "value" -> value_ret(er)
                   [] op = "paths" -> pr
                   [] op = "path" -> path_ret(pr)
    IN  /\ execRes' = Some(er)
        /\ pathsRes' = IF op = "value" THEN None ELSE Some(pr)
        /\ result' = Some(final)
        /\ dirs' = drop_gc_root(final, dirs, gc_root_dir)
        /\ guards' = IF final.ok /\ op # "value"
                     THEN guards \cup {final.val.gc_root} ELSE guards
        /\ gc_root_dir' = None
        /\ pc' = "returned"

\* paths, line 309: TempDir::new()? fails.
CallOpts_paths_tempdir_fails(o) ==
    /\ Enter(o)
    /\ LET e == Err(FromIoError("tempdir"))
       IN  /\ execRes' = None
           /\ pathsRes' = Some(e)
           /\ result' = Some(e)
    /\ pc' = "returned"
    /\ cmd' = NoCmd
    /\ tempdir_calls' = 1 /\ paths_calls' = 1
    /\ UNCHANGED <<gc_root_dir, dirs, guards>>

(***************************************************************************)
(* execute, step by step.                                                  *)
(***************************************************************************)
\* What the child may do next, having written ow and ew.
ChildOps(ow, ew) ==
    {[k |-> "out", v |-> t] : t \in IF Len(ow) < MaxOut THEN OutTokens ELSE {}}
    \cup {[k |-> "err", v |-> l] : l \in IF Len(ew) < MaxErr THEN ErrLines ELSE {}}
    \cup {[k |-> "exit", v |-> s] : s \in ExitCodes}

\* Lines 354-357: cmd.spawn() succeeds; both pipes exist, their read ends
\* held by nix_proc.
execute_spawn ==
    /\ pc = "spawn"
    /\ child' = "running"
    /\ childNext' \in ChildOps(<<>>, <<>>)
    /\ outOpen' = TRUE /\ errOpen' = TRUE
    /\ pc' = "spawn_stderr"
    /\ spawn_calls' = spawn_calls + 1
    /\ UNCHANGED <<cfgVars, op, cmd, tempdir_calls, paths_calls, gc_root_dir, nix_proc_result,
                   data_result, execRes, pathsRes, result, dirs, guards,
                   exitStatus, outWritten, errWritten, outPipe, errPipe,
                   errThreadVars, outThreadVars>>

\* The failure a spawn error of kind `kind` is mapped to, NotFound forgotten.
spawn_error_allIo(c, kind) == BuildError_io(kind)

\* Lines 354-357: the failure a spawn error of kind `kind` is mapped to.
spawn_error(c, kind) ==
    IF kind = "NotFound" THEN BuildError_spawn(c, kind) ELSE BuildError_io(kind)

\* A failed spawn that is tried again.
execute_spawn_fails_retry(kind) ==
    /\ pc = "spawn"
    /\ spawn_calls' = spawn_calls + 1
    /\ UNCHANGED <<cfgVars, pc, op, cmd, tempdir_calls, paths_calls,
                   gc_root_dir, nix_proc_result, data_result, execRes,
                   pathsRes, result, dirs, guards,
                   childVars, pipeVars, errThreadVars, outThreadVars>>

\* Lines 354-357: cmd.spawn() fails and ? returns.
execute_spawn_fails(kind) ==
    /\ pc = "spawn"
    /\ Return(Err(spawn_error(cmd, kind)))
    /\ spawn_calls' = spawn_calls + 1
    /\ UNCHANGED <<cfgVars, op, cmd, tempdir_calls, paths_calls, nix_proc_result, data_result,
                   childVars, pipeVars, errThreadVars, outThreadVars>>

\* Lines 360-369: the channel and the stderr thread.
execute_spawn_stderr_thread ==
    /\ pc = "spawn_stderr"
    /\ chan' = <<>> /\ txAlive' = TRUE /\ rxAlive' = TRUE
    /\ stderr_thread' = "running"
    /\ pc' = "spawn_stdout"
    /\ UNCHANGED <<cfgVars, op, cmd, countVars, gc_root_dir, nix_proc_result,
                   data_result, execRes, pathsRes, result, dirs, guards,
                   childVars, pipeVars, outThreadVars>>

\* Lines 372-373: the stdout thread.
execute_spawn_stdout_thread ==
    /\ pc = "spawn_stdout"
    /\ stdout_thread' = "running"
    /\ pc' = "wait"
    /\ UNCHANGED <<cfgVars, op, cmd, countVars, gc_root_dir, nix_proc_result,
                   data_result, execRes, pathsRes, result, dirs, guards,
                   childVars, pipeVars, errThreadVars, outAcc, stdout_ret>>

\* Line 376: wait returns the exit status once the child has exited.
execute_wait ==
    /\ pc = "wait"
    /\ child = "exited"
    /\ nix_proc_result' = Some(Ok(exitStatus))
    /\ pc' = "join_stderr"
    /\ UNCHANGED <<cfgVars, op, cmd, countVars, gc_root_dir, data_result,
                   execRes, pathsRes, result, dirs, guards,
                   childVars, pipeVars, errThreadVars, outThreadVars>>

\* Line 376: wait returns an error and ? returns it; the receiver and the
\* two join handles are dropped, the threads run on detached.
execute_wait_fails ==
    /\ pc = "wait"
    /\ child = "exited"
    /\ nix_proc_result' = Some(Err("wait"))
    /\ rxAlive' = FALSE
    /\ Return(Err(FromIoError("wait")))
    /\ UNCHANGED <<cfgVars, op, cmd, countVars, data_result, childVars, pipeVars,
                   stderr_thread, chan, txAlive, outThreadVars>>

\* A caller that goes on without waiting for the stderr thread to end.
execute_join_stderr_noJoin ==
    /\ pc = "join_stderr"
    /\ pc' = "join_stdout"
    /\ UNCHANGED <<cfgVars, op, cmd, countVars, gc_root_dir, nix_proc_result,
                   data_result, execRes, pathsRes, result, dirs, guards,
                   childVars, pipeVars, errThreadVars, outThreadVars>>

\* Lines 379-381: join the stderr thread; if it panicked, expect panics and
\* the unwinding drops the locals.
execute_join_stderr ==
    /\ pc = "join_stderr"
    /\ stderr_thread \in {"done", "panicked"}
    /\ IF stderr_thread = "done"
       THEN /\ pc' = "join_stdout"
            /\ UNCHANGED <<gc_root_dir, dirs, rxAlive>>
       ELSE /\ pc' = "panicked"
            /\ dirs' = dirs \ {gc_root_dir[i] : i \in 1..Len(gc_root_dir)}
            /\ gc_root_dir' = None
            /\ rxAlive' = FALSE
    /\ UNCHANGED <<cfgVars, op, cmd, countVars, nix_proc_result, data_result,
                   execRes, pathsRes, result, guards, childVars, pipeVars,
                   stderr_thread, chan, txAlive, outThreadVars>>

\* A caller that goes on without waiting for the stdout thread to end.
execute_join_stdout_noJoin ==
    /\ pc = "join_stdout"
    /\ data_result' = IF stdout_ret = None THEN Some(Err("read")) ELSE stdout_ret
    /\ pc' = "interpret"
    /\ UNCHANGED <<cfgVars, op, cmd, countVars, gc_root_dir, nix_proc_result,
                   execRes, pathsRes, result, dirs, guards,
                   childVars, pipeVars, errThreadVars, outThreadVars>>

\* Lines 384-386: join the stdout thread and take what stdout_fn returned.
execute_join_stdout ==
    /\ pc = "join_stdout"
    /\ stdout_thread = "done"
    /\ data_result' = stdout_ret
    /\ pc' = "interpret"
    /\ UNCHANGED <<cfgVars, op, cmd, countVars, gc_root_dir, nix_proc_result,
                   execRes, pathsRes, result, dirs, guards,
                   childVars, pipeVars, errThreadVars, outThreadVars>>

\* Lines 388-396: the exit status decides; stderr_rx.iter() ends once the
\* sender is gone.
execute_interpret ==
    /\ pc = "interpret"
    /\ success(nix_proc_result[1].val) \/ ~txAlive
    /\ Return(execute_ret(cmd, nix_proc_result[1].val, data_result[1], chan))
    /\ rxAlive' = FALSE
    /\ UNCHANGED <<cfgVars, op, cmd, countVars, nix_proc_result, data_result,
                   childVars, pipeVars, stderr_thread, chan, txAlive,
                   outThreadVars>>

\* The caller drops a guard it holds: the directory is removed.
drop_guard(d) ==
    /\ pc = "returned"
    /\ d \in guards
    /\ guards' = guards \ {d}
    /\ dirs' = dirs \ {d}
    /\ UNCHANGED <<cfgVars, pc, op, cmd, countVars, gc_root_dir, nix_proc_result,
                   data_result, execRes, pathsRes, result,
                   childVars, pipeVars, errThreadVars, outThreadVars>>

(***************************************************************************)
(* The child process: it writes to its two pipes, blocking on a full one,  *)
(* and exits.                                                              *)
(***************************************************************************)
child_write_out ==
    /\ child = "running" /\ childNext.k = "out"
    /\ outOpen /\ Len(outPipe) < PipeCap
    /\ outPipe' = Append(outPipe, childNext.v)
    /\ outWritten' = Append(outWritten, childNext.v)
    /\ childNext' \in ChildOps(outWritten', errWritten)
    /\ UNCHANGED <<cfgVars, callVars, child, exitStatus, errWritten,
                   errPipe, outOpen, errOpen, errThreadVars, outThreadVars>>

child_write_err ==
    /\ child = "running" /\ childNext.k = "err"
    /\ errOpen /\ Len(errPipe) < PipeCap
    /\ errPipe' = Append(errPipe, childNext.v)
    /\ errWritten' = Append(errWritten, childNext.v)
    /\ childNext' \in ChildOps(outWritten, errWritten')
    /\ UNCHANGED <<cfgVars, callVars, child, exitStatus, outWritten,
                   outPipe, outOpen, errOpen, errThreadVars, outThreadVars>>

\* The child writes to a pipe whose read end is closed.
BrokenPipe ==
    /\ child = "running"
    /\ \/ childNext.k = "out" /\ ~outOpen
       \/ childNext.k = "err" /\ ~errOpen

\* SIGPIPE, which Command resets to its default, kills the child.
child_sigpipe ==
    /\ BrokenPipe
    /\ child' = "exited"
    /\ exitStatus' = "sigpipe"
    /\ UNCHANGED <<cfgVars, callVars, childNext, outWritten, errWritten,
                   pipeVars, errThreadVars, outThreadVars>>

\* A child that ignores SIGPIPE gets EPIPE, and goes on to exit.
child_epipe ==
    /\ BrokenPipe
    /\ childNext' \in {[k |-> "exit", v |-> s] : s \in ExitCodes}
    /\ UNCHANGED <<cfgVars, callVars, child, exitStatus, outWritten,
                   errWritten, pipeVars, errThreadVars, outThreadVars>>

child_exit ==
    /\ child = "running" /\ childNext.k = "exit"
    /\ child' = "exited"
    /\ exitStatus' = childNext.v
    /\ UNCHANGED <<cfgVars, callVars, childNext, outWritten, errWritten,
                   pipeVars, errThreadVars, outThreadVars>>

(***************************************************************************)
(* The stderr thread, lines 362-369.                                       *)
(***************************************************************************)
\* The thread ends: its sender and its end of the pipe are dropped.
stderr_ends(how) ==
    /\ stderr_thread' = how
    /\ txAlive' = FALSE
    /\ errOpen' = FALSE

\* A stderr thread that sends only the first line it reads.
stderr_send_firstOnly(line) ==
    chan' = IF chan = <<>> THEN <<line>> ELSE chan

\* Lines 365-367: stderr_tx.send(line)
stderr_send(line) ==
    chan' = Append(chan, line)

\* A stderr thread that starts to read only once the child has exited.
stderr_reads_afterExit == stderr_thread = "running" /\ child = "exited"

\* Lines 362-364: the thread reads from its spawn on, beside the child.
stderr_reads == stderr_thread = "running"

\* The loop reads a line and sends it; if the receiver is gone, the send
\* fails and expect panics.
stderr_read ==
    /\ stderr_reads
    /\ errPipe # <<>>
    /\ LET n == Lines_next(errPipe)
       IN  IF rxAlive
           THEN /\ stderr_send(n.line)
                /\ errPipe' = n.rest
                /\ UNCHANGED <<stderr_thread, txAlive, errOpen>>
           ELSE /\ stderr_ends("panicked")
                /\ errPipe' = <<>>
                /\ UNCHANGED chan
    /\ UNCHANGED <<cfgVars, callVars, childVars, outPipe, outOpen, rxAlive,
                   outThreadVars>>

\* The stream ends: the child has exited and the pipe is empty.
stderr_eof ==
    /\ stderr_thread = "running"
    /\ errPipe = <<>> /\ child = "exited"
    /\ stderr_ends("done")
    /\ UNCHANGED <<cfgVars, callVars, childVars, outPipe, errPipe, outOpen,
                   chan, rxAlive, outThreadVars>>

\* A read fails: line.unwrap() panics.
stderr_read_fails ==
    /\ stderr_thread = "running"
    /\ stderr_ends("panicked")
    /\ errPipe' = <<>>
    /\ UNCHANGED <<cfgVars, callVars, childVars, outPipe, outOpen,
                   chan, rxAlive, outThreadVars>>

(***************************************************************************)
(* The stdout thread, line 373: stdout_fn on the child's standard output.  *)
(***************************************************************************)
\* The thread ends with `r`: its end of the pipe is dropped.
stdout_ends(r) ==
    /\ stdout_thread' = "done"
    /\ stdout_ret' = Some(r)
    /\ outOpen' = FALSE
    /\ outPipe' = <<>>

\* stdout_fn reads on; once it has its result it reads no more, and the
\* pipe stays open until the closure returns and drops the BufReader.
stdout_read ==
    /\ stdout_thread = "running" /\ stdout_ret = None
    /\ outPipe # <<>>
    /\ LET n == Lines_next(outPipe)
           acc == Append(outAcc, n.line)
       IN  /\ outAcc' = acc
           /\ outPipe' = n.rest
           /\ stdout_ret' = IF stdout_fn_stops(op, acc)
                            THEN Some(stdout_fn_early(op, acc))
                            ELSE stdout_ret
           /\ UNCHANGED <<stdout_thread, outOpen>>
    /\ UNCHANGED <<cfgVars, callVars, childVars, errPipe, errOpen,
                   errThreadVars>>

stdout_eof ==
    /\ stdout_thread = "running" /\ stdout_ret = None
    /\ outPipe = <<>> /\ child = "exited"
    /\ stdout_ends(stdout_fn_eof(op, outAcc))
    /\ UNCHANGED <<cfgVars, callVars, childVars, errPipe, errOpen,
                   errThreadVars, outAcc>>

stdout_read_fails ==
    /\ stdout_thread = "running" /\ stdout_ret = None
    /\ stdout_ends(stdout_fn_io(op))
    /\ UNCHANGED <<cfgVars, callVars, childVars, errPipe, errOpen,
                   errThreadVars, outAcc>>

\* stdout_fn returns what it stopped with before the end of the stream.
stdout_return ==
    /\ stdout_thread = "running" /\ stdout_ret # None
    /\ stdout_ends(stdout_ret[1])
    /\ UNCHANGED <<cfgVars, callVars, childVars, errPipe, errOpen,
                   errThreadVars, outAcc>>

(***************************************************************************)
(* The specifications.                                                     *)
(***************************************************************************)
\* The configurations the terminal operations are run on.
Configured ==
    \/ \E e \in Exprs : CallOpts_new(Expression(e))
    \/ \E p \in Files :
          /\ input = File(p) /\ ctor = File(p)
          /\ attribute = Some("hello")
          /\ argstrs = [n \in {"foo"} |-> "bar"]
          /\ argOrder = <<"foo">>
          /\ ret = <<>>
          /\ log = <<[call |-> "attribute", name |-> "", val |-> "hello"],
                     [call |-> "argstr", name |-> "foo", val |-> "bar"]>>

Init == Configured /\ ProcInit

\* The caller of the terminal operations.
Calls ==
    \/ CallOpts_value
    \/ \E o \in {"paths", "path"} : CallOpts_paths(o)
    \/ \E o \in {"paths", "path"} : CallOpts_paths_tempdir_fails(o)
    \/ \E d \in DirIds : drop_guard(d)

\* The calling thread inside execute.
Execute ==
    \/ execute_spawn
    \/ \E kind \in {"NotFound", "PermissionDenied"} : execute_spawn_fails(kind)
    \/ execute_spawn_stderr_thread
    \/ execute_spawn_stdout_thread
    \/ execute_wait
    \/ execute_wait_fails
    \/ execute_join_stderr
    \/ execute_join_stdout
    \/ execute_interpret

Child == child_write_out \/ child_write_err \/ child_sigpipe \/ child_epipe \/ child_exit

StderrThread == stderr_read \/ stderr_eof \/ stderr_read_fails

StdoutThread == stdout_read \/ stdout_eof \/ stdout_read_fails \/ stdout_return

Next == Calls \/ Execute \/ Child \/ StderrThread \/ StdoutThread

Spec == Init /\ [][Next]_vars

\* The terminal operations on a configuration fresh from its constructor,
\* with every thread and the child scheduled: each takes its next step if it
\* stays able to. No failure of a spawn, a wait or a read has to happen.
InitFair == (\E e \in Exprs : CallOpts_new(Expression(e))) /\ ProcInit

FairSpec ==
    /\ InitFair
    /\ [][Next]_vars
    /\ WF_vars(execute_spawn \/ execute_spawn_stderr_thread
                  \/ execute_spawn_stdout_thread \/ execute_wait
                  \/ execute_join_stderr \/ execute_join_stdout
                  \/ execute_interpret)
    /\ WF_vars(Child)
    /\ WF_vars(stderr_read \/ stderr_eof)
    /\ WF_vars(stdout_read \/ stdout_eof \/ stdout_return)

\* The builder and the rendering alone.
InitArgs == (\E inp \in Inputs : CallOpts_new(inp)) /\ ProcInit

NextArgs ==
    \/ \E attr \in Attrs : CallOpts_attribute(attr)
    \/ \E name \in Names, value \in Values : CallOpts_argstr(name, value)
    \/ Render

SpecArgs == InitArgs /\ [][NextArgs]_vars

(***************************************************************************)
(* The properties.                                                         *)
(***************************************************************************)
Max(S) == CHOOSE x \in S : \A y \in S : y <= x

\* The terminal operation has returned to its caller.
Returned == pc = "returned" /\ result # None
\* execute got an exit status from wait.
Waited == nix_proc_result # None /\ nix_proc_result[1].ok
\* The terminal operation returned the failure built by constructor k.
Failed(k) == Returned /\ ~result[1].ok /\ result[1].err.ctor = k
\* The directory whose result link the command was given exists.
OutLinkDirExists ==
    /\ cmd.program = "nix-build"
    /\ \E d \in dirs : cmd.args[2] = out_link(d)

\* C1: the arguments rendered are -A and the attribute if one is set, then
\* one triple --argstr k v for each entry (k, v) of argstrs, each key once,
\* then --expr e or -- p as the last two tokens, and nothing else.
C1_RenderedArguments ==
    Len(ret) > 0 =>
        LET a == IF attribute = None THEN 0 ELSE 2
            n == Cardinality(DOMAIN argstrs)
            key(j) == ret[a + 3 * j + 2]
        IN  /\ Len(ret) = a + 3 * n + 2
            /\ attribute # None => ret[1] = "-A" /\ ret[2] = attribute[1]
            /\ \A j \in 0..(n - 1) :
                  /\ ret[a + 3 * j + 1] = "--argstr"
                  /\ key(j) \in DOMAIN argstrs
                  /\ ret[a + 3 * j + 3] = argstrs[key(j)]
            /\ {key(j) : j \in 0..(n - 1)} = DOMAIN argstrs
            /\ input.tag = "Expression" =>
                  ret[Len(ret) - 1] = "--expr" /\ ret[Len(ret)] = input.val
            /\ input.tag = "File" =>
                  ret[Len(ret) - 1] = "--" /\ ret[Len(ret)] = input.val

\* A file input with an attribute and two arguments has been rendered.
C1_Witness ==
    /\ Len(ret) > 0
    /\ input.tag = "File"
    /\ attribute # None
    /\ Cardinality(DOMAIN argstrs) = 2

AttrCalls == {i \in 1..Len(log) : log[i].call = "attribute"}
ArgstrCalls(nm) ==
    {i \in 1..Len(log) : log[i].call = "argstr" /\ log[i].name = nm}

\* C10: after any builder calls the rendering has at most one -A, with the
\* value of the last attribute call, and for each name exactly one --argstr
\* triple, with the value of the last argstr call for that name (none for a
\* name never given); its last two tokens are the clause of the input the
\* configuration was constructed with.
C10_LastCallWins ==
    Len(ret) > 0 =>
        /\ Cardinality({i \in 1..Len(ret) : ret[i] = "-A"}) <= 1
        /\ IF AttrCalls = {}
           THEN \A i \in 1..Len(ret) : ret[i] # "-A"
           ELSE ret[1] = "-A" /\ ret[2] = log[Max(AttrCalls)].val
        /\ \A nm \in Names :
              LET at == {i \in 1..(Len(ret) - 2) :
                            ret[i] = "--argstr" /\ ret[i + 1] = nm}
              IN  IF ArgstrCalls(nm) = {}
                  THEN at = {}
                  ELSE /\ Cardinality(at) = 1
                       /\ \A i \in at : ret[i + 2] = log[Max(ArgstrCalls(nm))].val
        /\ input = ctor
        /\ SubSeq(ret, Len(ret) - 1, Len(ret)) =
              IF ctor.tag = "Expression" THEN <<"--expr", ctor.val>>
              ELSE <<"--", ctor.val>>

\* Rendered after two attribute calls and two argstr calls for one name, each
\* pair with different values.
C10_Witness ==
    /\ Len(ret) > 0
    /\ \E i, j \in AttrCalls : i < j /\ log[i].val # log[j].val
    /\ \E nm \in Names : \E i, j \in ArgstrCalls(nm) :
          i < j /\ log[i].val # log[j].val

\* C2: the failure returned for a non-zero exit carries exactly the lines the
\* child wrote to standard error, in the order written.
C2_StderrLinesExact ==
    Failed("exit") => result[1].err.logs = errWritten

\* A non-zero exit after the child filled both streams beyond a pipe's
\* capacity, with two different lines on standard error.
C2_Witness ==
    /\ Failed("exit")
    /\ Len(outWritten) > PipeCap
    /\ Len(errWritten) > PipeCap
    /\ errWritten[1] # errWritten[2]

\* The child waits to write to a full pipe that somebody still holds open.
BlockedOnOut ==
    child = "running" /\ childNext.k = "out" /\ outOpen /\ Len(outPipe) >= PipeCap
BlockedOnErr ==
    child = "running" /\ childNext.k = "err" /\ errOpen /\ Len(errPipe) >= PipeCap

\* C3: a child blocked on a full pipe always has a thread that reads that
\* pipe, running or about to be spawned; the calling thread panics only when
\* the stderr thread has; and every call of execute comes to an end when the
\* child, the two threads and the caller are scheduled fairly.
C3_NoPipeDeadlock ==
    /\ [](BlockedOnOut =>
            \/ stdout_thread = "running"
            \/ stdout_thread = "none" /\ pc \in {"spawn_stderr", "spawn_stdout"})
    /\ [](BlockedOnErr =>
            \/ stderr_thread = "running"
            \/ stderr_thread = "none" /\ pc = "spawn_stderr")
    /\ [](pc = "panicked" => stderr_thread = "panicked")
    /\ (pc = "spawn") ~> (pc = "returned" \/ pc = "panicked")

\* The call has returned after the child wrote more than a pipe holds to
\* both of its streams.
C3_Witness ==
    /\ Returned
    /\ Len(outWritten) > PipeCap
    /\ Len(errWritten) > PipeCap
    /\ stderr_thread = "done" /\ stdout_thread = "done"

\* C4: paths returns Ok only with at least one store path, one per line the
\* child wrote to standard output and in that order; when execute saw the
\* child exit with success and standard output end without a line, paths
\* returns the failure built by BuildError::output, not the one built by
\* BuildError::exit.
C4_PathsNonEmpty ==
    (Returned /\ op = "paths") =>
        /\ result[1].ok =>
              /\ Len(result[1].val.paths) >= 1
              /\ result[1].val.paths =
                    [i \in 1..Len(outWritten) |-> [StorePath |-> outWritten[i]]]
        /\ (Waited /\ success(nix_proc_result[1].val)
              /\ stdout_ret[1].ok /\ outWritten = <<>>) =>
              /\ ~result[1].ok
              /\ result[1].err.ctor = "output"
              /\ result[1].err.ctor # "exit"

\* paths has returned after a successful exit with no line on standard output.
C4_Witness ==
    /\ Returned /\ op = "paths"
    /\ Waited /\ success(nix_proc_result[1].val)
    /\ stdout_ret[1].ok /\ outWritten = <<>>
    /\ Failed("output")

\* C5: path returns Ok exactly when its call of paths returned Ok with one
\* store path, and then with that path and that call's guard; a failure of
\* paths is returned as it is; after a successful exit with no line or with
\* several lines on standard output path returns the failure built by
\* BuildError::output.
C5_PathExactlyOne ==
    (Returned /\ op = "path") =>
        LET pr == pathsRes[1]
            r == result[1]
        IN  /\ r.ok <=> (pr.ok /\ Len(pr.val.paths) = 1)
            /\ r.ok =>
                  /\ r.val.path = pr.val.paths[1]
                  /\ r.val.path = [StorePath |-> outWritten[1]]
                  /\ r.val.gc_root = pr.val.gc_root
                  /\ cmd.args[2] = out_link(r.val.gc_root)
            /\ ~pr.ok => r = pr
            /\ (Waited /\ success(nix_proc_result[1].val)
                  /\ stdout_ret[1].ok /\ Len(outWritten) # 1) =>
                  ~r.ok /\ r.err.ctor = "output"

\* path has returned a failure after paths returned two store paths.
C5_Witness ==
    /\ Returned /\ op = "path"
    /\ pathsRes[1].ok
    /\ Len(pathsRes[1].val.paths) = 2
    /\ Failed("output")

\* C6: the temporary directory exists before the child is spawned and while
\* the child runs; the directory of every guard the caller holds exists; when
\* a path-producing call has failed, by return or by panic, its directory is
\* gone; and no directory exists that is neither the local of a running call
\* nor held by a guard.
C6_GuardLifetime ==
    /\ (op \in {"paths", "path"} /\ pc = "spawn") =>
          /\ gc_root_dir # None
          /\ gc_root_dir[1] \in dirs
          /\ cmd.args[2] = out_link(gc_root_dir[1])
    /\ (op \in {"paths", "path"} /\ child = "running") => OutLinkDirExists
    /\ guards \subseteq dirs
    /\ (Returned /\ op \in {"paths", "path"} /\ result[1].ok) =>
          (result[1].val.gc_root \in guards <=> OutLinkDirExists)
    /\ ((Returned /\ ~result[1].ok) \/ pc = "panicked") => ~OutLinkDirExists
    /\ dirs \subseteq guards \cup {gc_root_dir[i] : i \in 1..Len(gc_root_dir)}

\* path has failed on two store paths and the directory is gone.
C6_Witness ==
    /\ Returned /\ op = "path"
    /\ pathsRes[1].ok
    /\ ~result[1].ok
    /\ ~OutLinkDirExists
    /\ dirs = guards

\* C7: when wait gave a non-zero exit status the terminal operation returns
\* the failure built by BuildError::exit, with the command, the status and
\* the standard-error lines, whatever stdout_fn returned; and the failure
\* built by BuildError::output is returned only after an exit with success.
C7_ExitStatusFirst ==
    /\ (Returned /\ Waited /\ ~success(nix_proc_result[1].val)) =>
          /\ ~result[1].ok
          /\ result[1].err.ctor = "exit"
          /\ result[1].err.cmd = cmd
          /\ result[1].err.status = exitStatus
          /\ result[1].err.logs = errWritten
    /\ (Failed("output") /\ execRes # None) =>
          Waited /\ exitStatus = "exit0"

\* value has returned the exit failure although standard output held a
\* valid value.
C7_Witness ==
    /\ Failed("exit")
    /\ op = "value"
    /\ stdout_ret[1].ok
    /\ exitStatus = "exit1"

\* C8: after an exit with success, value returns Ok(v) exactly when the
\* deserialization gave Ok(v); when it failed, value returns a failure that
\* is none of those built by BuildError::exit, BuildError::spawn and
\* BuildError::output; so does paths when reading a line failed.
C8_DecodeFailureDistinct ==
    (Returned /\ Waited /\ success(nix_proc_result[1].val)) =>
        /\ op = "value" =>
              /\ result[1].ok <=> stdout_ret[1].ok
              /\ result[1].ok =>
                    /\ result[1].val = stdout_ret[1].val
                    /\ outWritten = <<"5">> /\ result[1].val = 5
        /\ ~stdout_ret[1].ok =>
              /\ ~result[1].ok
              /\ result[1].err.ctor \notin {"exit", "spawn", "output"}

\* value has returned a failure for a deserialization that failed after an
\* exit with success.
C8_Witness ==
    /\ Returned /\ op = "value"
    /\ Waited /\ success(nix_proc_result[1].val)
    /\ ~stdout_ret[1].ok
    /\ Failed("io")

\* C9: when the spawn fails, execute returns with no child, no thread started
\* and no wait made, the failure built by BuildError::spawn exactly for the
\* error kind NotFound and the one built by BuildError::io for any other;
\* when TempDir::new fails in paths, execute is not called and nothing is
\* spawned.
C9_SpawnFailure ==
    /\ (Returned /\ execRes # None /\ child = "none") =>
          /\ stderr_thread = "none" /\ stdout_thread = "none"
          /\ nix_proc_result = None
          /\ ~result[1].ok
          /\ result[1].err.ctor \in {"spawn", "io"}
          /\ result[1].err.ctor = "spawn" <=> result[1].err.cause = "NotFound"
    /\ (Returned /\ execRes = None) =>
          /\ op \in {"paths", "path"}
          /\ child = "none"
          /\ stderr_thread = "none" /\ stdout_thread = "none"
          /\ ~result[1].ok

\* A terminal operation has returned the not-found failure.
C9_Witness ==
    /\ Failed("spawn")
    /\ result[1].err.cause = "NotFound"
    /\ child = "none"

Min(S) == CHOOSE x \in S : \A y \in S : x <= y

\* The names of the --argstr triples of the rendering, in its order.
RenderedNames ==
    LET a == IF attribute = None THEN 0 ELSE 2
        n == (Len(ret) - a - 2) \div 3
    IN  [j \in 1..n |-> ret[a + 3 * (j - 1) + 2]]

\* C11: the --argstr triples of the rendering come in the order in which
\* their names were first given to argstr.
C11_InsertionOrder ==
    Len(ret) > 0 =>
        \A i, j \in 1..Len(RenderedNames) :
            i < j => Min(ArgstrCalls(RenderedNames[i]))
                        < Min(ArgstrCalls(RenderedNames[j]))

\* C12: a terminal operation calls cmd.spawn() at most once, whatever fails;
\* when it has ended it has called it once, or not at all if TempDir::new
\* failed; path and paths have then made one call of paths and one call of
\* TempDir::new, value none, and the call has created at most one directory.
C12_SpawnAtMostOnce ==
    /\ spawn_calls <= 1 /\ tempdir_calls <= 1 /\ paths_calls <= 1
    /\ Len(gc_root_dir) <= tempdir_calls
    /\ child # "none" => spawn_calls = 1
    /\ pc = "panicked" => spawn_calls = 1
    /\ Returned =>
          /\ spawn_calls = IF execRes = None THEN 0 ELSE 1
          /\ op = "value" =>
                spawn_calls = 1 /\ tempdir_calls = 0 /\ paths_calls = 0
          /\ op \in {"paths", "path"} =>
                tempdir_calls = 1 /\ paths_calls = 1
          /\ (op \in {"paths", "path"} /\ cmd # NoCmd) => spawn_calls = 1

\* path has returned the failure of a spawn that failed for another reason
\* than NotFound.
C12_Witness ==
    /\ Returned /\ op = "path"
    /\ Failed("io") /\ result[1].err.cause = "PermissionDenied"
    /\ spawn_calls = 1 /\ paths_calls = 1 /\ tempdir_calls = 1

\* The arguments of a command that come after those the terminal operation
\* itself puts first.
RenderedPart(c) ==
    IF c.program = "nix-instantiate"
    THEN SubSeq(c.args, 4, Len(c.args))
    ELSE SubSeq(c.args, 3, Len(c.args))

\* C13: no step of a terminal operation changes input, attribute or argstrs;
\* every command built carries the rendering of that configuration; every
\* call starts with no process and empty pipes of its own; and the directory
\* a path-producing call creates did not exist before and is the directory
\* of no guard the caller holds.
C13_ConfigUnchanged ==
    /\ [][<<input, attribute, argstrs, argOrder>>'
            = <<input, attribute, argstrs, argOrder>>]_vars
    /\ [][(gc_root_dir' # None /\ gc_root_dir' # gc_root_dir) =>
            /\ gc_root_dir'[1] \notin dirs
            /\ gc_root_dir'[1] \notin guards
            /\ guards' = guards]_vars
    /\ [](cmd # NoCmd =>
            RenderedPart(cmd)
               = command_arguments(input, attribute, argstrs, argOrder))
    /\ [](gc_root_dir # None => gc_root_dir[1] \notin guards)
    /\ [](pc = "spawn" =>
            /\ child = "none" /\ outPipe = <<>> /\ errPipe = <<>>
            /\ stderr_thread = "none" /\ stdout_thread = "none")

\* A path-producing call on a configuration with an attribute has returned
\* Ok while the caller still holds the guard of an earlier call.
C13_Witness ==
    /\ Returned /\ op \in {"paths", "path"} /\ result[1].ok
    /\ attribute # None
    /\ Cardinality(guards) = 2
    /\ result[1].val.gc_root \in guards

\* execute has returned the decoded value or the failure of a non-zero exit.
ExecuteResult ==
    /\ Returned /\ execRes # None
    /\ execRes[1].ok \/ execRes[1].err.ctor = "exit"

\* C14: when execute looks at the exit status, and when it has returned the
\* decoded value or the exit failure, the child has exited, wait has given
\* its status, and both threads have ended and been joined.
C14_ReturnAfterAll ==
    (pc = "interpret" \/ ExecuteResult) =>
        /\ child = "exited"
        /\ Waited
        /\ stderr_thread = "done"
        /\ stdout_thread = "done"
        /\ data_result = stdout_ret

\* paths has got two lines from execute, the child having written to
\* standard error as well.
C14_Witness ==
    /\ ExecuteResult /\ execRes[1].ok
    /\ op = "paths"
    /\ Len(outWritten) = 2 /\ errWritten # <<>>

\* C15: execute does not return, on any path, while a thread it has spawned
\* is still running and so has not been joined.
C15_JoinsOnEveryPath ==
    (Returned /\ stdout_thread # "none") =>
        /\ stderr_thread # "running"
        /\ stdout_thread # "running"

\* C16: only the stderr thread puts lines into the channel, one line it has
\* read at a time, at the end; nothing is taken out of the channel before
\* execute looks at the exit status, and by then the stderr thread has ended,
\* its sender is gone, the receiver is still there and the channel holds
\* every line the child wrote to standard error.
C16_ChannelHandoff ==
    /\ [][chan' # chan =>
            \/ /\ stderr_thread = "running" /\ errPipe # <<>> /\ rxAlive
               /\ chan' = Append(chan, Head(errPipe))
            \/ /\ chan' = <<>>
               /\ pc \in {"idle", "returned", "spawn_stderr"}]_vars
    /\ [](pc = "interpret" =>
            /\ stderr_thread = "done"
            /\ ~txAlive /\ rxAlive
            /\ chan = errWritten)

\* execute is about to collect two lines from the channel after a non-zero
\* exit.
C16_Witness ==
    /\ pc = "interpret"
    /\ exitStatus = "exit1"
    /\ Len(chan) = 2

\* C17: when execute looks at the exit status, stdout_fn not having met a
\* read error, stdout_fn has consumed everything the child wrote to standard
\* output and the stderr thread everything it wrote to standard error.
C17_FullyDrained ==
    (pc = "interpret" /\ data_result[1] # stdout_fn_io(op)) =>
        /\ outAcc = outWritten
        /\ outPipe = <<>>
        /\ chan = errWritten

\* C18: a read error on the child's standard error, which makes the stderr
\* thread stop while the caller is in execute, does not make the terminal
\* operation panic: it is returned to the caller as a failure value.
C18_FailuresAreValues ==
    (stderr_thread = "panicked" /\ Waited) => pc # "panicked"

\* C19: whenever the stderr thread has a line to read and send, the receiver
\* of its channel is alive, so that no send of the thread can fail.
C19_ReceiverOutlivesSender ==
    (stderr_thread = "running" /\ errPipe # <<>>) => rxAlive

\* C20: after an exit with success, what the terminal operation returns is
\* fixed by what stdout_fn returned (and, when Ok, by the directory of the
\* call), and that by what was read from standard output: execute returns
\* Ok of it; value returns the value or the failure of BuildError::io;
\* paths and path return the paths, in the number they ask for, or the
\* failures of the read and of BuildError::output; no line of standard error
\* enters any of them.
C20_StderrIgnoredOnSuccess ==
    (Returned /\ Waited /\ success(nix_proc_result[1].val)) =>
        LET d == stdout_ret[1]
            r == result[1]
            zero == Err(BuildError_output(
                        "expected exactly one Nix output, got zero"))
            more == Err(BuildError_output(
                        "expected exactly one build output, got more"))
        IN  /\ execRes[1] = Ok(d)
            /\ \/ d = stdout_fn_io(op)
               \/ d = stdout_fn_early(op, outAcc)
               \/ d = stdout_fn_eof(op, outAcc)
            /\ op = "value" =>
                  r = IF d.ok THEN Ok(d.val) ELSE Err(BuildError_io(d.err))
            /\ (op \in {"paths", "path"} /\ ~d.ok) => r = Err(FromIoError(d.err))
            /\ (op \in {"paths", "path"} /\ d.ok /\ d.val = <<>>) => r = zero
            /\ (op = "paths" /\ d.ok /\ d.val # <<>>) =>
                  /\ r.ok /\ r.val.paths = d.val
                  /\ out_link(r.val.gc_root) = cmd.args[2]
            /\ (op = "path" /\ d.ok /\ Len(d.val) = 1) =>
                  /\ r.ok /\ r.val.path = d.val[1]
                  /\ out_link(r.val.gc_root) = cmd.args[2]
            /\ (op = "path" /\ d.ok /\ Len(d.val) > 1) => r = more

\* value has returned the number on standard output after an exit with
\* success, the child having written two different lines to standard error.
C20_Witness ==
    /\ Returned /\ op = "value"
    /\ Waited /\ success(nix_proc_result[1].val)
    /\ result[1] = Ok(5)
    /\ Len(errWritten) = 2 /\ errWritten[1] # errWritten[2]

=============================================================================
